---- MODULE Spec2Model ----
(***************************************************************************)
(* Model of the photo server (server.js): the on-demand directory lister,  *)
(* the media scanner, the pagination of a scan and the path check of the   *)
(* path-taking endpoints, over a small file tree.                          *)
(*                                                                         *)
(* A file name and a path string are sequences of one-character strings,   *)
(* so that String.startsWith, path.extname and toLowerCase are computed    *)
(* character by character.  A path is handled as the sequence of its       *)
(* segments; PathStr renders it with the separator "/".  Time stamps and   *)
(* sizes of entries (mtime, size) are left out of the records: no          *)
(* operation of the server branches on them.                               *)
(*                                                                         *)
(* The browser client (App.tsx) and its photo viewer are modelled as two   *)
(* further specifications over the same file tree: ClientSpec, in which    *)
(* the loads of the client are answered by the handlers of the server, and *)
(* ViewerSpec, the viewer over a loaded photo list.  app holds the state   *)
(* hooks of App, viewer those of PhotoViewer, fetches the loads in flight, *)
(* and journal what an observer of the client has noted.                   *)
(***************************************************************************)
EXTENDS Integers, Sequences, FiniteSets, TLC

VARIABLES tree, request, response, locals, app, fetches, viewer, journal

serverVars == <<request, response, locals>>
clientVars == <<app, fetches, viewer, journal>>
vars == <<tree, request, response, locals, app, fetches, viewer, journal>>

(***************************************************************************)
(* Bounds of the model.                                                    *)
(***************************************************************************)
\* number of generated media files in directory /p/a
MaxFiles == 3
\* number of segments of a requested path
MaxPathLen == 2

Min(a, b) == IF a < b THEN a ELSE b
Max(a, b) == IF a > b THEN a ELSE b

(***************************************************************************)
(* Names used in the file tree.                                            *)
(***************************************************************************)
DotDot == <<".", ".">>
nP == <<"p">>
nPX == <<"p", "x">>
nA == <<"a">>
nB == <<"b">>
nC == <<"c">>
nS == <<"s">>
nTxt == <<"n", ".", "t", "x", "t">>
nRootJpg == <<"r", ".", "j", "p", "g">>
nDeepJpg == <<"h", ".", "j", "p", "g">>
nDirJpg == <<"d", ".", "j", "p", "g">>
nWebm == <<"i", ".", "w", "e", "b", "m">>
nSibJpg == <<"m", ".", "j", "p", "g">>

Digits == <<"1", "2", "3", "4", "5", "6", "7", "8", "9">>
GenExts == << <<".", "j", "p", "g">>, <<".", "P", "N", "G">>, <<".", "m", "p", "4">> >>
\* the i-th generated media file name: 1.jpg, 2.PNG, 3.mp4, 4.jpg, ...
MediaName(i) ==
    (IF i < 10 THEN <<Digits[i]>>
     ELSE <<Digits[i \div 10], (<<"0">> \o Digits)[(i % 10) + 1]>>)
        \o GenExts[((i - 1) % 3) + 1]

(***************************************************************************)
(* Path functions of node's path module (posix flavour, absolute paths).   *)
(***************************************************************************)
\* the configured root, as the sequence of its segments and as a string
RootSegs == <<nP>>

RECURSIVE PathStr(_)
PathStr(segs) ==
    IF segs = <<>> THEN <<>>
    ELSE <<"/">> \o Head(segs) \o PathStr(Tail(segs))

PHOTOS_DIR == PathStr(RootSegs)

\* path.normalize of an absolute path: "." is dropped, ".." removes the
\* segment before it and is dropped at the top
RECURSIVE NormalizeFrom(_, _)
NormalizeFrom(done, rest) ==
    IF rest = <<>> THEN done
    ELSE IF Head(rest) = <<".">> THEN NormalizeFrom(done, Tail(rest))
    ELSE IF Head(rest) = DotDot
         THEN NormalizeFrom(IF done = <<>> THEN <<>> ELSE SubSeq(done, 1, Len(done) - 1),
                            Tail(rest))
    ELSE NormalizeFrom(Append(done, Head(rest)), Tail(rest))

\* path.join(PHOTOS_DIR, requested): concatenate, then normalize
Join(base, requested) == NormalizeFrom(<<>>, base \o requested)

\* the string of a normalized absolute path ("/" for the top)
FullStr(segs) == IF segs = <<>> THEN <<"/">> ELSE PathStr(segs)

\* String.prototype.startsWith
StartsWith(s, prefix) ==
    /\ Len(s) >= Len(prefix)
    /\ SubSeq(s, 1, Len(prefix)) = prefix

\* length of the longest common prefix of two segment sequences
RECURSIVE CommonLen(_, _)
CommonLen(a, b) ==
    IF a = <<>> \/ b = <<>> THEN 0
    ELSE IF Head(a) = Head(b) THEN 1 + CommonLen(Tail(a), Tail(b))
    ELSE 0

\* path.relative(from, to) for two normalized absolute paths
Relative(from, to) ==
    LET k == CommonLen(from, to)
    IN  [i \in 1..(Len(from) - k) |-> DotDot] \o SubSeq(to, k + 1, Len(to))

\* path.dirname of a relative path: <<>> stands for "."
Dirname(rel) == IF Len(rel) <= 1 THEN <<>> ELSE SubSeq(rel, 1, Len(rel) - 1)

(***************************************************************************)
(* EntryClassifier: isMediaFile and getMediaType.                          *)
(***************************************************************************)
UpperChars == <<"A", "B", "C", "D", "E", "F", "G", "H", "I", "J", "K", "L", "M",
                "N", "O", "P", "Q", "R", "S", "T", "U", "V", "W", "X", "Y", "Z">>
LowerChars == <<"a", "b", "c", "d", "e", "f", "g", "h", "i", "j", "k", "l", "m",
                "n", "o", "p", "q", "r", "s", "t", "u", "v", "w", "x", "y", "z">>

ToLowerChar(c) ==
    IF \E i \in 1..26 : UpperChars[i] = c
    THEN LowerChars[CHOOSE i \in 1..26 : UpperChars[i] = c]
    ELSE c

ToLowerCase(s) == [i \in 1..Len(s) |-> ToLowerChar(s[i])]

\* path.extname: from the last "." of the name to its end; empty when there
\* is no "." or when the only "." is the first character
ExtName(name) ==
    LET dots == {i \in 1..Len(name) : name[i] = "."}
    IN  IF dots = {} \/ name = DotDot THEN <<>>
        ELSE LET last == CHOOSE i \in dots : \A j \in dots : j <= i
             IN  IF last = 1 THEN <<>> ELSE SubSeq(name, last, Len(name))

imageExts == { <<".", "j", "p", "g">>, <<".", "j", "p", "e", "g">>, <<".", "p", "n", "g">>,
               <<".", "g", "i", "f">>, <<".", "w", "e", "b", "p">>, <<".", "b", "m", "p">>,
               <<".", "t", "i", "f", "f">>, <<".", "s", "v", "g">> }
videoExts == { <<".", "m", "p", "4">>, <<".", "a", "v", "i">>, <<".", "m", "o", "v">>,
               <<".", "w", "m", "v">>, <<".", "f", "l", "v">>, <<".", "w", "e", "b", "m">>,
               <<".", "m", "k", "v">>, <<".", "m", "4", "v">> }

\* isMediaFile without toLowerCase
isMediaFileCaseSensitive(filename) ==
    ExtName(filename) \in imageExts \/ ExtName(filename) \in videoExts

isMediaFile(filename) ==
    LET ext == ToLowerCase(ExtName(filename))
    IN  ext \in imageExts \/ ext \in videoExts

getMediaType(filename) ==
    LET ext == ToLowerCase(ExtName(filename))
    IN  IF ext \in videoExts THEN "video" ELSE "image"

(***************************************************************************)
(* The file tree: a function from absolute paths (segment sequences) to    *)
(* nodes.  entries is the result of readdir, in the order readdir gives    *)
(* it; statOk = FALSE is an entry whose stat fails (a dangling link, an    *)
(* entry removed after readdir); readOk = FALSE is a directory whose       *)
(* readdir fails (no permission).                                          *)
(***************************************************************************)
File == [kind |-> "file", entries |-> <<>>, statOk |-> TRUE, readOk |-> TRUE]
Dir(entries) == [kind |-> "dir", entries |-> entries, statOk |-> TRUE, readOk |-> TRUE]

\* readdir of /p/a with k generated media files: the first file, the
\* sub-directory c, a text file, then the other files
AEntries(k) ==
    (IF k >= 1 THEN <<MediaName(1)>> ELSE <<>>)
        \o <<nC, nTxt>>
        \o [i \in 1..(k - 1) |-> MediaName(i + 1)]

BaseTree(k) ==
    (<<nP>> :> Dir(<<nB, nA, nRootJpg>>))
    @@ (<<nP, nRootJpg>> :> File)
    @@ (<<nP, nA>> :> Dir(AEntries(k)))
    @@ [q \in {<<nP, nA, MediaName(i)>> : i \in 1..k} |-> File]
    @@ (<<nP, nA, nTxt>> :> File)
    @@ (<<nP, nA, nC>> :> Dir(<<nDeepJpg>>))
    @@ (<<nP, nA, nC, nDeepJpg>> :> File)
    @@ (<<nP, nB>> :> Dir(<<nWebm, nDirJpg>>))
    @@ (<<nP, nB, nWebm>> :> File)
    @@ (<<nP, nB, nDirJpg>> :> Dir(<<>>))
    @@ (<<nPX>> :> Dir(<<nS, nSibJpg>>))
    @@ (<<nPX, nS>> :> Dir(<<>>))
    @@ (<<nPX, nSibJpg>> :> File)

\* a tree with at most one failing entry
NoStat(t, q) == [t EXCEPT ![q].statOk = FALSE]
NoRead(t, q) == [t EXCEPT ![q].readOk = FALSE]

\* file names that probe the classifier: upper and mixed case, two dots,
\* a media extension that is not the last one, no dot, a dot at the end,
\* a name that starts with its only dot, extensions outside both sets
ProbeNames ==
    { <<"h", ".", "J", "P", "G">>, <<"h", ".", "J", "p", "e", "g">>,
      <<"h", ".", "t", ".", "M", "O", "V">>, <<"h", ".", "m", "4", "v">>,
      <<"h", ".", "t", "i", "f", "f">>, <<"h", ".", "m", "p", "4", ".", "t", "x", "t">>,
      <<"h", ".", "p", "s", "d">>, <<"h", "j", "p", "g">>,
      <<"h", ".", "j", "p", "g", ".">>, <<".", "j", "p", "g">>,
      <<".", "m", "k", "v">>, <<"h", ".", "j", "p">> }

\* the tree with one generated file in which /p/a/c holds a file named n
NamedTree(n) ==
    LET t == BaseTree(1)
        old == <<nP, nA, nC, nDeepJpg>>
        new == <<nP, nA, nC, n>>
    IN  [q \in (DOMAIN t \ {old}) \cup {new} |->
            IF q = new THEN File
            ELSE IF q = <<nP, nA, nC>> THEN Dir(<<n>>)
            ELSE t[q]]

Trees ==
    UNION { LET t == BaseTree(k)
            IN  {t} \cup {NoStat(t, q) : q \in DOMAIN t}
                    \cup {NoRead(t, q) : q \in {d \in DOMAIN t : t[d].kind = "dir"}}
            : k \in 0..MaxFiles }
    \cup {NamedTree(n) : n \in ProbeNames}

(***************************************************************************)
(* File-system calls as the server uses them.                              *)
(***************************************************************************)
\* fs.statSync(p) returns (does not throw)
StatOk(p) == p \in DOMAIN tree /\ tree[p].statOk
IsDirectory(p) == tree[p].kind = "dir"
IsFile(p) == tree[p].kind = "file"
\* fs.existsSync(p)
ExistsSync(p) == p = <<>> \/ StatOk(p)
\* fs.readdirSync(p) returns (does not throw)
ReaddirOk(p) == StatOk(p) /\ IsDirectory(p) /\ tree[p].readOk
Readdir(p) == tree[p].entries

(***************************************************************************)
(* JavaScript built-ins the handlers use.                                  *)
(***************************************************************************)
DigitChars == <<"0", "1", "2", "3", "4", "5", "6", "7", "8", "9">>
IsDigit(c) == \E i \in 1..10 : DigitChars[i] = c
DigitVal(c) == (CHOOSE i \in 1..10 : DigitChars[i] = c) - 1

\* value of the longest prefix of digits of s, and whether there is one
RECURSIVE DigitsPrefix(_, _, _)
DigitsPrefix(s, acc, seen) ==
    IF s = <<>> \/ ~IsDigit(Head(s)) THEN [nan |-> ~seen, val |-> acc]
    ELSE DigitsPrefix(Tail(s), 10 * acc + DigitVal(Head(s)), TRUE)

\* the text of a query parameter that is not given: String(undefined)
Undefined == <<"u", "n", "d", "e", "f", "i", "n", "e", "d">>

\* parseInt(text): an optional sign, then the longest prefix of decimal
\* digits; NaN when there is no digit
parseInt(text) ==
    IF text # <<>> /\ Head(text) = "-"
    THEN LET r == DigitsPrefix(Tail(text), 0, FALSE) IN [nan |-> r.nan, val |-> 0 - r.val]
    ELSE IF text # <<>> /\ Head(text) = "+" THEN DigitsPrefix(Tail(text), 0, FALSE)
    ELSE DigitsPrefix(text, 0, FALSE)

\* parseInt(text) || dflt: NaN and 0 are falsy
OrDefault(parsed, dflt) == IF parsed.nan \/ parsed.val = 0 THEN dflt ELSE parsed.val

\* Array.prototype.slice(start, end)
Slice(s, start, end) ==
    LET len == Len(s)
        from == IF start < 0 THEN Max(len + start, 0) ELSE Min(start, len)
        to == IF end < 0 THEN Max(len + end, 0) ELSE Min(end, len)
    IN  SubSeq(s, from + 1, to)

\* Math.floor(a / b) for b # 0
FloorDiv(a, b) == IF b > 0 THEN a \div b ELSE (0 - a) \div (0 - b)

\* String.prototype.localeCompare on the names of the model: characters are
\* compared by their place in the collation (punctuation, digits, letters),
\* without regard to case first, lower case before upper case on a tie
Collation == <<"-", ".", "0", "1", "2", "3", "4", "5", "6", "7", "8", "9">> \o LowerChars
Rank(c) == CHOOSE i \in 1..Len(Collation) : Collation[i] = ToLowerChar(c)

RECURSIVE LexCompare(_, _)
LexCompare(a, b) ==
    IF a = <<>> /\ b = <<>> THEN 0
    ELSE IF a = <<>> THEN 0 - 1
    ELSE IF b = <<>> THEN 1
    ELSE IF Rank(Head(a)) < Rank(Head(b)) THEN 0 - 1
    ELSE IF Rank(Head(a)) > Rank(Head(b)) THEN 1
    ELSE LexCompare(Tail(a), Tail(b))

RECURSIVE CaseCompare(_, _)
CaseCompare(a, b) ==
    IF a = <<>> \/ b = <<>> THEN 0
    ELSE IF Head(a) = Head(b) THEN CaseCompare(Tail(a), Tail(b))
    ELSE IF Head(a) = ToLowerChar(Head(a)) THEN 0 - 1
    ELSE 1

localeCompare(a, b) ==
    IF LexCompare(a, b) # 0 THEN LexCompare(a, b) ELSE CaseCompare(a, b)

\* Array.prototype.sort with (a, b) => a.name.localeCompare(b.name): stable
RECURSIVE InsertByName(_, _)
InsertByName(sorted, e) ==
    IF sorted = <<>> THEN <<e>>
    ELSE IF localeCompare(e.name, Head(sorted).name) < 0 THEN <<e>> \o sorted
    ELSE <<Head(sorted)>> \o InsertByName(Tail(sorted), e)

RECURSIVE SortByName(_)
SortByName(s) ==
    IF s = <<>> THEN <<>>
    ELSE InsertByName(SortByName(SubSeq(s, 1, Len(s) - 1)), s[Len(s)])

(***************************************************************************)
(* DirectoryLister: getDirectoriesWithCounts(dir, 1).                      *)
(***************************************************************************)
\* A for loop of the server is modelled by its body (CountItem, ScanItem)
\* and an operator that applies the body to the items lo..hi in their
\* order, first to the lower half of the range and then to the upper half,
\* which keeps the evaluation shallow for long directories.  The loop's
\* variables are carried in st; st.left says that the loop has been left,
\* and the items after that are not visited.

\* the body of the inner for loop of the count probe, for one child of a
\* listed directory: a stat that throws leaves the loop with the counts
\* reached so far
CountItem(fullPath, dirItem, st) ==
    IF st.left THEN st
    ELSE LET itemPath == Append(fullPath, dirItem)
         IN  IF ~StatOk(itemPath) THEN [st EXCEPT !.left = TRUE]
             ELSE IF IsFile(itemPath) /\ isMediaFile(dirItem)
             THEN [st EXCEPT !.mediaCount = @ + 1]
             ELSE IF IsDirectory(itemPath)
             THEN [st EXCEPT !.subdirCount = @ + 1]
             ELSE st

\* the inner for loop over dirItems[lo..hi]
RECURSIVE CountLoop(_, _, _, _, _)
CountLoop(fullPath, dirItems, lo, hi, st) ==
    IF lo > hi THEN st
    ELSE IF lo = hi THEN CountItem(fullPath, dirItems[lo], st)
    ELSE LET mid == (lo + hi) \div 2
             first == CountLoop(fullPath, dirItems, lo, mid, st)
         IN  IF first.left THEN first
             ELSE CountLoop(fullPath, dirItems, mid + 1, hi, first)

CountProbe(fullPath) ==
    IF ~ReaddirOk(fullPath) THEN [mediaCount |-> 0, subdirCount |-> 0]
    ELSE LET dirItems == Readdir(fullPath)
             st == CountLoop(fullPath, dirItems, 1, Len(dirItems),
                             [mediaCount |-> 0, subdirCount |-> 0, left |-> FALSE])
         IN  [mediaCount |-> st.mediaCount, subdirCount |-> st.subdirCount]

\* ListLoop without the try around the stat of an item: the first item
\* whose stat throws ends the loop
RECURSIVE ListLoopAbortOnStat(_, _, _, _)
ListLoopAbortOnStat(dir, items, i, directories) ==
    IF i > Len(items) THEN directories
    ELSE LET item == items[i]
             fullPath == Append(dir, item)
         IN  IF ~StatOk(fullPath) THEN directories
             ELSE IF IsDirectory(fullPath)
             THEN LET c == CountProbe(fullPath)
                  IN  ListLoopAbortOnStat(dir, items, i + 1,
                               Append(directories,
                                      [name |-> item,
                                       path |-> Relative(RootSegs, fullPath),
                                       fullPath |-> fullPath,
                                       mediaCount |-> c.mediaCount,
                                       subdirectoryCount |-> c.subdirCount]))
             ELSE ListLoopAbortOnStat(dir, items, i + 1, directories)

\* ListLoop that descends: the sub-directories of a listed directory are
\* listed as well
RECURSIVE ListLoopDeep(_, _, _, _)
ListLoopDeep(dir, items, i, directories) ==
    IF i > Len(items) THEN directories
    ELSE LET item == items[i]
             fullPath == Append(dir, item)
         IN  IF StatOk(fullPath) /\ IsDirectory(fullPath)
             THEN LET c == CountProbe(fullPath)
                      below == IF ReaddirOk(fullPath)
                               THEN ListLoopDeep(fullPath, Readdir(fullPath), 1, <<>>)
                               ELSE <<>>
                  IN  ListLoopDeep(dir, items, i + 1,
                               Append(directories,
                                      [name |-> item,
                                       path |-> Relative(RootSegs, fullPath),
                                       fullPath |-> fullPath,
                                       mediaCount |-> c.mediaCount,
                                       subdirectoryCount |-> c.subdirCount])
                                   \o below)
             ELSE ListLoopDeep(dir, items, i + 1, directories)

\* the outer for loop over the items of dir
RECURSIVE ListLoop(_, _, _, _)
ListLoop(dir, items, i, directories) ==
    IF i > Len(items) THEN directories
    ELSE LET item == items[i]
             fullPath == Append(dir, item)
         IN  IF StatOk(fullPath) /\ IsDirectory(fullPath)
             THEN LET c == CountProbe(fullPath)
                  IN  ListLoop(dir, items, i + 1,
                               Append(directories,
                                      [name |-> item,
                                       path |-> Relative(RootSegs, fullPath),
                                       fullPath |-> fullPath,
                                       mediaCount |-> c.mediaCount,
                                       subdirectoryCount |-> c.subdirCount]))
             ELSE ListLoop(dir, items, i + 1, directories)

\* getDirectoriesWithCounts without the sort: the entries in readdir order
getDirectoriesUnsorted(dir) ==
    IF ~ReaddirOk(dir) THEN <<>> ELSE ListLoop(dir, Readdir(dir), 1, <<>>)

\* a readdir of dir that throws is caught and leaves the list empty
getDirectoriesWithCounts(dir) ==
    SortByName(IF ~ReaddirOk(dir) THEN <<>> ELSE ListLoop(dir, Readdir(dir), 1, <<>>))

(***************************************************************************)
(* MediaScanner: getMediaFilesInDirectory(dir, recursive, limit).          *)
(***************************************************************************)
\* MediaEntry with a path relative to the directory being scanned
MediaEntryNameOnly(item, fullPath) ==
    [name |-> item,
     fullPath |-> fullPath,
     relativePath |-> <<item>>,
     directory |-> <<"Root">>,
     type |-> getMediaType(item)]

MediaEntry(item, fullPath) ==
    LET relativePath == Relative(RootSegs, fullPath)
        dirName == Dirname(relativePath)
    IN  [name |-> item,
         fullPath |-> fullPath,
         relativePath |-> relativePath,
         directory |-> IF dirName = <<>> THEN <<"Root">> ELSE dirName,
         type |-> getMediaType(item)]

RECURSIVE getMediaFilesInDirectory(_, _, _)

\* ScanItem without the try around the stat of an item: the first item
\* whose stat throws ends the loop
ScanItemAbortOnStat(dir, item, recursive, limit, st) ==
    IF st.left THEN st
    ELSE IF st.count >= limit /\ ~recursive THEN [st EXCEPT !.left = TRUE]
    ELSE LET fullPath == Append(dir, item)
         IN  IF ~StatOk(fullPath) THEN [st EXCEPT !.left = TRUE]
             ELSE IF IsDirectory(fullPath) /\ recursive
             THEN LET subFiles == getMediaFilesInDirectory(fullPath, FALSE, limit - st.count)
                  IN  [st EXCEPT !.mediaFiles = @ \o subFiles, !.count = @ + Len(subFiles)]
             ELSE IF IsFile(fullPath) /\ isMediaFile(item)
             THEN [st EXCEPT !.mediaFiles = Append(@, MediaEntry(item, fullPath)),
                             !.count = @ + 1]
             ELSE st

\* ScanItem with the break test count > limit in place of count >= limit
ScanItemLateBreak(dir, item, recursive, limit, st) ==
    IF st.left THEN st
    ELSE IF st.count > limit /\ ~recursive THEN [st EXCEPT !.left = TRUE]
    ELSE LET fullPath == Append(dir, item)
         IN  IF ~StatOk(fullPath) THEN st
             ELSE IF IsDirectory(fullPath) /\ recursive
             THEN LET subFiles == getMediaFilesInDirectory(fullPath, FALSE, limit - st.count)
                  IN  [st EXCEPT !.mediaFiles = @ \o subFiles, !.count = @ + Len(subFiles)]
             ELSE IF IsFile(fullPath) /\ isMediaFile(item)
             THEN [st EXCEPT !.mediaFiles = Append(@, MediaEntry(item, fullPath)),
                             !.count = @ + 1]
             ELSE st

\* ScanItem without the break at the limit
ScanItemNoBreak(dir, item, recursive, limit, st) ==
    IF st.left THEN st
    ELSE LET fullPath == Append(dir, item)
         IN  IF ~StatOk(fullPath) THEN st
             ELSE IF IsDirectory(fullPath) /\ recursive
             THEN LET subFiles == getMediaFilesInDirectory(fullPath, FALSE, limit - st.count)
                  IN  [st EXCEPT !.mediaFiles = @ \o subFiles, !.count = @ + Len(subFiles)]
             ELSE IF IsFile(fullPath) /\ isMediaFile(item)
             THEN [st EXCEPT !.mediaFiles = Append(@, MediaEntry(item, fullPath)),
                             !.count = @ + 1]
             ELSE st

\* the body of the for loop over the items of dir, for one item: the break
\* at the limit, then the try; a stat that throws is caught and the loop
\* goes on; a sub-directory is scanned with recursive = false and the
\* budget limit - count
ScanItem(dir, item, recursive, limit, st) ==
    IF st.left THEN st
    ELSE IF st.count >= limit /\ ~recursive THEN [st EXCEPT !.left = TRUE]
    ELSE LET fullPath == Append(dir, item)
         IN  IF ~StatOk(fullPath) THEN st
             ELSE IF IsDirectory(fullPath) /\ recursive
             THEN LET subFiles == getMediaFilesInDirectory(fullPath, FALSE, limit - st.count)
                  IN  [st EXCEPT !.mediaFiles = @ \o subFiles, !.count = @ + Len(subFiles)]
             ELSE IF IsFile(fullPath) /\ isMediaFile(item)
             THEN [st EXCEPT !.mediaFiles = Append(@, MediaEntry(item, fullPath)),
                             !.count = @ + 1]
             ELSE st

\* the for loop over items[lo..hi]
RECURSIVE ScanLoop(_, _, _, _, _, _, _)
ScanLoop(dir, items, lo, hi, recursive, limit, st) ==
    IF lo > hi THEN st
    ELSE IF lo = hi THEN ScanItem(dir, items[lo], recursive, limit, st)
    ELSE LET mid == (lo + hi) \div 2
             first == ScanLoop(dir, items, lo, mid, recursive, limit, st)
         IN  IF first.left THEN first
             ELSE ScanLoop(dir, items, mid + 1, hi, recursive, limit, first)

\* a readdir of dir that throws is caught and leaves the list empty
getMediaFilesInDirectory(dir, recursive, limit) ==
    IF ~ReaddirOk(dir) THEN <<>>
    ELSE LET items == Readdir(dir)
         IN  ScanLoop(dir, items, 1, Len(items), recursive, limit,
                      [mediaFiles |-> <<>>, count |-> 0, left |-> FALSE]).mediaFiles

(***************************************************************************)
(* The request handlers.  request is the request being answered, response  *)
(* the answer on its way to the client, locals the handler's local         *)
(* variables and the file-system work it did (op).                         *)
(***************************************************************************)
DefaultLimit == 100
DefaultOffset == 0
RootPhotosLimit == 50
StatsPreview == 10

NoRequest == [endpoint |-> "none"]
NoResponse == [status |-> 0]
NoLocals == [op |-> "none"]

\* inputs: the segments of a requested path and the texts of the query
ReqSegs == {DotDot, nA, nC, nPX, nRootJpg}
ReqPaths == UNION {[1..n -> ReqSegs] : n \in 0..MaxPathLen}
LimitTexts == {Undefined, <<"0">>, <<"1">>, <<"2">>, <<"-", "1">>, <<"z">>}
OffsetTexts == {Undefined, <<"1">>, <<"2">>, <<"-", "1">>}
RecursiveTexts == {"true", "false"}

\* the security check of the path-taking endpoints
AccessDenied(targetDir) == ~StartsWith(FullStr(targetDir), PHOTOS_DIR)

Idle == response = NoResponse

\* GET /api/directories
GetDirectories ==
    /\ Idle
    /\ request' = [endpoint |-> "directories"]
    /\ IF ~ExistsSync(RootSegs)
       THEN /\ response' = [status |-> 404]
            /\ locals' = NoLocals
       ELSE /\ response' = [status |-> 200,
                            directories |-> getDirectoriesWithCounts(RootSegs)]
            /\ locals' = [op |-> "list", targetDir |-> RootSegs]
    /\ UNCHANGED <<tree, clientVars>>

\* GET /api/directories/:path
GetDirectoriesPath ==
    /\ Idle
    /\ \E requestedPath \in ReqPaths :
         LET targetDir == Join(RootSegs, requestedPath)
         IN  /\ request' = [endpoint |-> "directoriesPath", path |-> requestedPath]
             /\ IF AccessDenied(targetDir)
                THEN /\ response' = [status |-> 403]
                     /\ locals' = [op |-> "none", targetDir |-> targetDir]
                ELSE IF ~ExistsSync(targetDir)
                THEN /\ response' = [status |-> 404]
                     /\ locals' = [op |-> "none", targetDir |-> targetDir]
                ELSE /\ response' = [status |-> 200,
                                     currentPath |-> requestedPath,
                                     fullPath |-> targetDir,
                                     directories |-> getDirectoriesWithCounts(targetDir)]
                     /\ locals' = [op |-> "list", targetDir |-> targetDir]
    /\ UNCHANGED <<tree, clientVars>>

\* PageOf with a slice that starts at the first entry whatever the offset
PageOfFromStart(mediaFiles, offset, limit) ==
    LET paginatedFiles == Slice(mediaFiles, 0, limit)
    IN  [index \in 1..Len(paginatedFiles) |->
            [id |-> offset + (index - 1) + 1,
             name |-> paginatedFiles[index].name,
             directory |-> paginatedFiles[index].directory,
             type |-> paginatedFiles[index].type,
             relativePath |-> paginatedFiles[index].relativePath]]

\* the photos of a response: the page of the scan, with ids
PageOf(mediaFiles, offset, limit) ==
    LET paginatedFiles == Slice(mediaFiles, offset, offset + limit)
    IN  [index \in 1..Len(paginatedFiles) |->
            [id |-> offset + (index - 1) + 1,
             name |-> paginatedFiles[index].name,
             directory |-> paginatedFiles[index].directory,
             type |-> paginatedFiles[index].type,
             relativePath |-> paginatedFiles[index].relativePath]]

\* GET /api/photos/:directory?recursive=&limit=&offset=
GetPhotosDirectory ==
    /\ Idle
    /\ \E directory \in ReqPaths, qRecursive \in RecursiveTexts,
          qLimit \in LimitTexts, qOffset \in OffsetTexts :
         LET targetDir == Join(RootSegs, directory)
             recursive == qRecursive = "true"
             limit == OrDefault(parseInt(qLimit), DefaultLimit)
             offset == OrDefault(parseInt(qOffset), DefaultOffset)
             mediaFiles == getMediaFilesInDirectory(targetDir, recursive, limit + offset)
             called == [targetDir |-> targetDir, recursive |-> recursive,
                        limit |-> limit, offset |-> offset]
         IN  /\ request' = [endpoint |-> "photosDirectory", path |-> directory,
                            recursive |-> qRecursive, limit |-> qLimit, offset |-> qOffset]
             /\ IF AccessDenied(targetDir)
                THEN /\ response' = [status |-> 403]
                     /\ locals' = [op |-> "none"] @@ called
                ELSE IF ~ExistsSync(targetDir)
                THEN /\ response' = [status |-> 404]
                     /\ locals' = [op |-> "none"] @@ called
                ELSE /\ response' = [status |-> 200,
                                     photos |-> PageOf(mediaFiles, offset, limit),
                                     totalCount |-> Len(mediaFiles),
                                     hasMore |-> Len(mediaFiles) > offset + limit,
                                     currentPage |-> FloorDiv(offset, limit) + 1,
                                     directory |-> directory]
                     /\ locals' = [op |-> "scan", scanLimit |-> limit + offset,
                                   mediaFiles |-> mediaFiles] @@ called
    /\ UNCHANGED <<tree, clientVars>>

\* GET /api/stats
GetStats ==
    /\ Idle
    /\ request' = [endpoint |-> "stats"]
    /\ IF ~ExistsSync(RootSegs)
       THEN /\ response' = [status |-> 404]
            /\ locals' = NoLocals
       ELSE LET directories == getDirectoriesWithCounts(RootSegs)
                RECURSIVE Sum(_)
                Sum(ds) == IF ds = <<>> THEN 0 ELSE Head(ds).mediaCount + Sum(Tail(ds))
            IN  /\ response' = [status |-> 200,
                                totalDirectories |-> Len(directories),
                                estimatedMediaFiles |-> Sum(directories),
                                directories |-> Slice(directories, 0, StatsPreview)]
                /\ locals' = [op |-> "list", targetDir |-> RootSegs]
    /\ UNCHANGED <<tree, clientVars>>

\* GET /api/photos
GetPhotosRoot ==
    /\ Idle
    /\ request' = [endpoint |-> "photosRoot"]
    /\ LET mediaFiles == getMediaFilesInDirectory(RootSegs, FALSE, RootPhotosLimit)
       IN  /\ response' = [status |-> 200, photos |-> PageOf(mediaFiles, 0, Len(mediaFiles))]
           /\ locals' = [op |-> "scan", targetDir |-> RootSegs, recursive |-> FALSE,
                         scanLimit |-> RootPhotosLimit, mediaFiles |-> mediaFiles]
    /\ UNCHANGED <<tree, clientVars>>

\* GET /api/photo/:filepath and GET /api/thumbnail/:filepath have the same
\* body.  res.sendFile answers a directory by passing the request on, which
\* ends in express's 404.
ServeFile(endpoint) ==
    /\ Idle
    /\ \E filepath \in ReqPaths :
         LET fullPath == Join(RootSegs, filepath)
         IN  /\ request' = [endpoint |-> endpoint, path |-> filepath]
             /\ IF AccessDenied(fullPath)
                THEN /\ response' = [status |-> 403]
                     /\ locals' = [op |-> "none", targetDir |-> fullPath]
                ELSE IF ~ExistsSync(fullPath)
                THEN /\ response' = [status |-> 404]
                     /\ locals' = [op |-> "none", targetDir |-> fullPath]
                ELSE IF IsDirectory(fullPath)
                THEN /\ response' = [status |-> 404]
                     /\ locals' = [op |-> "sendFile", targetDir |-> fullPath]
                ELSE /\ response' = [status |-> 200, file |-> fullPath]
                     /\ locals' = [op |-> "sendFile", targetDir |-> fullPath]
    /\ UNCHANGED <<tree, clientVars>>

GetPhoto == ServeFile("photo")

GetThumbnail == ServeFile("thumbnail")

\* the client takes the response; the server keeps nothing of the request
Receive ==
    /\ ~Idle
    /\ request' = NoRequest
    /\ response' = NoResponse
    /\ locals' = NoLocals
    /\ UNCHANGED <<tree, clientVars>>

(***************************************************************************)
(* The state of the client after construction (the useState initial        *)
(* values of App and of PhotoViewer).  A zoom is held in hundredths: 100   *)
(* is the zoom 1, 25 the step 0.25.  viewer.shown is the photo.id the      *)
(* reset effect of the viewer ran for last, 0 while no viewer is mounted.  *)
(***************************************************************************)
\* selectedPhoto = null
Null == [id |-> 0]
\* error = null
NoError == "null"

InitialApp ==
    [mode |-> "directories", photos |-> <<>>, directories |-> <<>>,
     currentPath |-> <<>>, pathHistory |-> <<>>, selectedPhoto |-> Null,
     searchTerm |-> <<>>, loading |-> TRUE, error |-> NoError,
     hasMore |-> FALSE, currentPage |-> 1, totalCount |-> 0]

InitialViewer == [rotation |-> 0, zoom |-> 100, isPlaying |-> FALSE, shown |-> 0]

NoNav == [stage |-> "none"]
NoJournal == [issued |-> 0, last |-> 0, failed |-> FALSE, nav |-> NoNav]

\* the server on its own: no client is attached
ClientAbsent ==
    /\ app = InitialApp
    /\ fetches = <<>>
    /\ viewer = InitialViewer
    /\ journal = NoJournal

Init ==
    /\ tree \in Trees
    /\ request = NoRequest
    /\ response = NoResponse
    /\ locals = NoLocals
    /\ ClientAbsent

Next ==
    \/ GetDirectories
    \/ GetDirectoriesPath
    \/ GetPhotosDirectory
    \/ GetStats
    \/ GetPhotosRoot
    \/ GetPhoto
    \/ GetThumbnail
    \/ Receive

Spec == Init /\ [][Next]_vars

(***************************************************************************)
(* What the file tree holds, read off the tree itself (not through the     *)
(* lister or the scanner); the properties compare the answers with it.     *)
(***************************************************************************)
\* q lies in the directory d or below it (d included)
Under(d, q) == Len(q) >= Len(d) /\ SubSeq(q, 1, Len(d)) = d
InsideRoot(q) == Under(RootSegs, q)
HasDotDot(segs) == \E i \in 1..Len(segs) : segs[i] = DotDot

\* the entries of d that are media files, and those that are directories
DirectMedia(d) ==
    {i \in 1..Len(tree[d].entries) :
        LET q == Append(d, tree[d].entries[i])
        IN  StatOk(q) /\ IsFile(q) /\ isMediaFile(tree[d].entries[i])}
DirectSubdirs(d) ==
    {i \in 1..Len(tree[d].entries) :
        LET q == Append(d, tree[d].entries[i])
        IN  StatOk(q) /\ IsDirectory(q)}
AllEntriesStatOk(d) ==
    \A i \in 1..Len(tree[d].entries) : StatOk(Append(d, tree[d].entries[i]))
\* the media files of the whole subtree of d
SubtreeMedia(d) ==
    {q \in DOMAIN tree : Under(d, q) /\ q # d /\ IsFile(q) /\ isMediaFile(q[Len(q)])}
NoFault == \A q \in DOMAIN tree : tree[q].statOk /\ tree[q].readOk

PathEndpoints == {"directoriesPath", "photosDirectory", "photo", "thumbnail"}
Listed == locals.op = "list" /\ request.endpoint \in {"directories", "directoriesPath"}
Scanned == locals.op = "scan"
PhotosPage == locals.op = "scan" /\ request.endpoint = "photosDirectory"
\* the pagination parameters of the request are a limit > 0 and an offset >= 0
ValidPage == PhotosPage => (locals.limit > 0 /\ locals.offset >= 0)

(***************************************************************************)
(* C1: on the path-taking endpoints a request whose joined path lies       *)
(* outside the root is answered 403 and nothing is listed, scanned or      *)
(* sent.  (The claim asks the same of every path with a ".." segment; a    *)
(* path such as a/.. that resolves inside the root is not answered 403     *)
(* either, which the security check, made on the joined path, cannot do.)  *)
(***************************************************************************)
C1_TraversalDenied ==
    (request.endpoint \in PathEndpoints /\ ~InsideRoot(locals.targetDir))
    => (response.status = 403 /\ locals.op = "none")

(***************************************************************************)
(* C2: every relative path returned by a listing or a scan that passed the *)
(* security check stays inside the root: it has no ".." segment and it is  *)
(* a path below the root (not empty).                                      *)
(***************************************************************************)
IsInsideRelative(rel) == rel # <<>> /\ ~HasDotDot(rel)

C2_ReturnedPathsInsideRoot ==
    /\ (Listed /\ response.status = 200)
         => \A i \in 1..Len(response.directories) :
                IsInsideRelative(response.directories[i].path)
    /\ (PhotosPage /\ response.status = 200)
         => \A i \in 1..Len(response.photos) :
                IsInsideRelative(response.photos[i].relativePath)

(***************************************************************************)
(* C3: a scan with work limit L never returns more than L entries,         *)
(* recursive or not (stated for the scans of requests with a limit > 0 and *)
(* an offset >= 0).                                                        *)
(***************************************************************************)
C3_ScanWithinLimit ==
    (Scanned /\ ValidPage) => Len(locals.mediaFiles) <= locals.scanLimit

(***************************************************************************)
(* C4: a page of a directory with N media files, for offset o >= 0 and     *)
(* limit l > 0, has min(l, max(0, N - o)) items, hasMore exactly when      *)
(* N > o + l, and currentPage = floor(o / l) + 1.                          *)
(***************************************************************************)
C4_PageShape ==
    (PhotosPage /\ ~locals.recursive /\ locals.limit > 0 /\ locals.offset >= 0
        /\ ReaddirOk(locals.targetDir) /\ AllEntriesStatOk(locals.targetDir))
    => LET N == Cardinality(DirectMedia(locals.targetDir))
           o == locals.offset
           l == locals.limit
       IN  /\ Len(response.photos) = Min(l, Max(0, N - o))
           /\ response.hasMore = (N > o + l)
           /\ response.currentPage = (o \div l) + 1

(***************************************************************************)
(* C5: a non-recursive scan with work limit L >= 0 of a readable directory *)
(* whose entries can all be stat-ed returns only media files that are      *)
(* direct children of the directory, and exactly min(L, number of direct   *)
(* media children) of them.                                                *)
(***************************************************************************)
C5_NonRecursiveScan ==
    (Scanned /\ ~locals.recursive /\ locals.scanLimit >= 0
        /\ ReaddirOk(locals.targetDir) /\ AllEntriesStatOk(locals.targetDir))
    => LET found == locals.mediaFiles
           d == locals.targetDir
       IN  /\ \A i \in 1..Len(found) :
                 /\ found[i].fullPath = Append(d, found[i].name)
                 /\ \E j \in DirectMedia(d) : tree[d].entries[j] = found[i].name
           /\ Len(found) <= locals.scanLimit
           /\ Len(found) = Min(locals.scanLimit, Cardinality(DirectMedia(d)))

\* the limit cuts the scan of a directory that also has a sub-directory
C5_Witness ==
    /\ Scanned /\ ~locals.recursive
    /\ ReaddirOk(locals.targetDir) /\ AllEntriesStatOk(locals.targetDir)
    /\ locals.scanLimit > 0
    /\ locals.scanLimit < Cardinality(DirectMedia(locals.targetDir))
    /\ Len(locals.mediaFiles) = locals.scanLimit
    /\ DirectSubdirs(locals.targetDir) # {}

(***************************************************************************)
(* C6: a recursive scan with work limit L of a tree without failing        *)
(* entries returns exactly min(L, M) entries, M the number of media files  *)
(* in the whole subtree of the scanned directory (stated for requests with *)
(* a limit > 0 and an offset >= 0).                                        *)
(***************************************************************************)
C6_RecursiveScanCount ==
    (Scanned /\ locals.recursive /\ ValidPage /\ NoFault
        /\ ReaddirOk(locals.targetDir))
    => Len(locals.mediaFiles)
         = Min(locals.scanLimit, Cardinality(SubtreeMedia(locals.targetDir)))

(***************************************************************************)
(* C7: a listing or a scan whose target exists but cannot be read (readdir *)
(* fails) is answered with status 500, never with a successful empty list. *)
(***************************************************************************)
C7_UnreadableTargetFails ==
    (locals.op \in {"list", "scan"} /\ ExistsSync(locals.targetDir)
        /\ ~ReaddirOk(locals.targetDir))
    => response.status = 500

(***************************************************************************)
(* C8: for every entry E returned by a listing, of a directory that can be *)
(* read, mediaCount is the number of E's direct children that are media    *)
(* files and subdirectoryCount the number of E's direct child directories. *)
(***************************************************************************)
C8_DirectCounts ==
    (Listed /\ response.status = 200)
    => \A i \in 1..Len(response.directories) :
          LET E == response.directories[i]
          IN  ReaddirOk(E.fullPath)
              => /\ E.mediaCount = Cardinality(DirectMedia(E.fullPath))
                 /\ E.subdirectoryCount = Cardinality(DirectSubdirs(E.fullPath))

(***************************************************************************)
(* C9: in a listing of a readable directory D the call succeeds and every  *)
(* child directory of D that can itself be stat-ed and read, with entries  *)
(* that can be stat-ed, appears exactly once with its true counts,         *)
(* whatever other child of D fails.                                        *)
(***************************************************************************)
HealthyChildDir(q) ==
    StatOk(q) /\ IsDirectory(q) /\ ReaddirOk(q) /\ AllEntriesStatOk(q)

C9_SiblingsSurvive ==
    (Listed /\ ReaddirOk(locals.targetDir))
    => /\ response.status = 200
       /\ \A j \in 1..Len(tree[locals.targetDir].entries) :
             LET item == tree[locals.targetDir].entries[j]
                 q == Append(locals.targetDir, item)
             IN  HealthyChildDir(q)
                 => /\ Cardinality({i \in 1..Len(response.directories) :
                                       response.directories[i].name = item}) = 1
                    /\ \E i \in 1..Len(response.directories) :
                          /\ response.directories[i].name = item
                          /\ response.directories[i].fullPath = q
                          /\ response.directories[i].mediaCount
                                = Cardinality(DirectMedia(q))
                          /\ response.directories[i].subdirectoryCount
                                = Cardinality(DirectSubdirs(q))

\* one child directory of the listed directory fails, and a sibling that
\* readdir gives after it is in the answer with counts that are not zero
C9_Witness ==
    /\ Listed /\ ReaddirOk(locals.targetDir) /\ response.status = 200
    /\ \E j, k \in 1..Len(tree[locals.targetDir].entries) :
          LET bad == Append(locals.targetDir, tree[locals.targetDir].entries[j])
              good == Append(locals.targetDir, tree[locals.targetDir].entries[k])
          IN  /\ j < k
              /\ tree[bad].kind = "dir" /\ (~StatOk(bad) \/ ~ReaddirOk(bad))
              /\ HealthyChildDir(good)
              /\ \E i \in 1..Len(response.directories) :
                    /\ response.directories[i].fullPath = good
                    /\ response.directories[i].mediaCount > 0
                    /\ response.directories[i].subdirectoryCount > 0

(***************************************************************************)
(* C10: a request is never scanned, sliced or reported with a limit that   *)
(* is not positive or an offset that is negative: such parameters are      *)
(* replaced by the defaults.                                               *)
(***************************************************************************)
C10_PaginationNormalized ==
    PhotosPage => (locals.limit > 0 /\ locals.offset >= 0)

(***************************************************************************)
(* C11: the classification of a name by its final dot-delimited suffix,    *)
(* written out from the claim: the suffix is what follows the last "." of  *)
(* the name.                                                               *)
(***************************************************************************)
ImageWords == { <<"j", "p", "g">>, <<"j", "p", "e", "g">>, <<"p", "n", "g">>,
                <<"g", "i", "f">>, <<"w", "e", "b", "p">>, <<"b", "m", "p">>,
                <<"t", "i", "f", "f">>, <<"s", "v", "g">> }
VideoWords == { <<"m", "p", "4">>, <<"a", "v", "i">>, <<"m", "o", "v">>,
                <<"w", "m", "v">>, <<"f", "l", "v">>, <<"w", "e", "b", "m">>,
                <<"m", "k", "v">>, <<"m", "4", "v">> }
\* place of the last "." of a name, 0 when there is none
LastDot(name) ==
    IF \E i \in 1..Len(name) : name[i] = "."
    THEN CHOOSE i \in 1..Len(name) :
            name[i] = "." /\ \A j \in (i + 1)..Len(name) : name[j] # "."
    ELSE 0
FinalSuffix(name) == ToLowerCase(SubSeq(name, LastDot(name) + 1, Len(name)))
SuffixIsMedia(name) ==
    LastDot(name) > 0 /\ FinalSuffix(name) \in (ImageWords \cup VideoWords)
SuffixKind(name) == IF FinalSuffix(name) \in VideoWords THEN "video" ELSE "image"
\* the same, for names whose last "." is not their first character
ExtIsMedia(name) == LastDot(name) > 1 /\ SuffixIsMedia(name)

\* the answers of scans and listings agree with the classification isM/kind:
\* only classified files are returned, with their kind; a scan that is not
\* cut by its limit returns every classified file of a directory; a
\* mediaCount counts exactly the classified files
ClassifiedBy(isM(_), kind(_)) ==
    /\ Scanned
         => \A i \in 1..Len(locals.mediaFiles) :
               /\ isM(locals.mediaFiles[i].name)
               /\ locals.mediaFiles[i].type = kind(locals.mediaFiles[i].name)
    /\ (Scanned /\ ~locals.recursive /\ ReaddirOk(locals.targetDir)
            /\ locals.scanLimit >= Len(tree[locals.targetDir].entries))
         => \A j \in 1..Len(tree[locals.targetDir].entries) :
               LET q == Append(locals.targetDir, tree[locals.targetDir].entries[j])
               IN  (StatOk(q) /\ IsFile(q) /\ isM(q[Len(q)]))
                   => \E i \in 1..Len(locals.mediaFiles) : locals.mediaFiles[i].fullPath = q
    /\ (Listed /\ response.status = 200)
         => \A i \in 1..Len(response.directories) :
               LET d == response.directories[i].fullPath
               IN  (ReaddirOk(d) /\ AllEntriesStatOk(d))
                   => response.directories[i].mediaCount
                        = Cardinality({j \in 1..Len(tree[d].entries) :
                                          /\ IsFile(Append(d, tree[d].entries[j]))
                                          /\ isM(tree[d].entries[j])})

\* C11 as claimed: a file is media iff its final dot-delimited suffix,
\* without regard to case, is in the image set or the video set, and video
\* iff it is in the video set; no other file is returned or counted.
C11_SuffixClassification == ClassifiedBy(SuffixIsMedia, SuffixKind)

\* C11 amended: the same for names whose last "." is not their first
\* character; a name that starts with its only "." (".jpg") has no
\* extension and is not media.
C11_ExtnameClassification == ClassifiedBy(ExtIsMedia, SuffixKind)

\* a scan returned a video whose extension is in upper case and follows a
\* second dot
C11_Witness ==
    /\ Scanned
    /\ \E i \in 1..Len(locals.mediaFiles) :
          /\ locals.mediaFiles[i].name = <<"h", ".", "t", ".", "M", "O", "V">>
          /\ locals.mediaFiles[i].type = "video"

(***************************************************************************)
(* C12: on the path-taking endpoints a joined path outside the root is     *)
(* answered 403 whether or not it exists, and a joined path inside the     *)
(* root that does not exist is answered 404.                               *)
(***************************************************************************)
C12_DeniedBeforeNotFound ==
    request.endpoint \in PathEndpoints
    => /\ ~InsideRoot(locals.targetDir) => response.status = 403
       /\ (InsideRoot(locals.targetDir) /\ ~ExistsSync(locals.targetDir))
             => response.status = 404

(***************************************************************************)
(* C13: for every entry a scan returns, joining the root and relativePath  *)
(* passes the security check and gives the entry's absolute path, which is *)
(* a file in or below the scanned directory, so that the photo endpoint    *)
(* serves it.                                                              *)
(***************************************************************************)
C13_RoundTrip ==
    Scanned
    => \A i \in 1..Len(locals.mediaFiles) :
          LET e == locals.mediaFiles[i]
              back == Join(RootSegs, e.relativePath)
          IN  /\ ~AccessDenied(back)
              /\ back = e.fullPath
              /\ Under(locals.targetDir, back)
              /\ ExistsSync(back) /\ IsFile(back)

\* a recursive scan of a directory below the root returned a file of a
\* sub-directory
C13_Witness ==
    /\ Scanned /\ locals.recursive /\ locals.targetDir # RootSegs
    /\ \E i \in 1..Len(locals.mediaFiles) :
          /\ Len(locals.mediaFiles[i].fullPath) = Len(locals.targetDir) + 2
          /\ Len(locals.mediaFiles[i].relativePath) = 3

(***************************************************************************)
(* C14: GET /api/stats reports totalDirectories = the number of immediate  *)
(* sub-directories of the root, estimatedMediaFiles = the sum of the       *)
(* mediaCount values of their entries, and as preview the first            *)
(* min(10, totalDirectories) entries of the listing sorted by name.        *)
(***************************************************************************)
RECURSIVE SumMediaCount(_)
SumMediaCount(ds) == IF ds = <<>> THEN 0 ELSE Head(ds).mediaCount + SumMediaCount(Tail(ds))

C14_Stats ==
    (request.endpoint = "stats" /\ response.status = 200)
    => /\ response.totalDirectories = Cardinality(DirectSubdirs(RootSegs))
       /\ Len(response.directories) = Min(StatsPreview, response.totalDirectories)
       /\ response.totalDirectories <= StatsPreview
             => response.estimatedMediaFiles = SumMediaCount(response.directories)
       /\ \A i, j \in 1..Len(response.directories) :
             i < j => localeCompare(response.directories[i].name,
                                    response.directories[j].name) <= 0

(***************************************************************************)
(* C15: a recursive scan of a tree without failing entries, with a work    *)
(* limit that is at least the number of media files of the subtree,        *)
(* returns every media file at any depth below the scanned directory.      *)
(***************************************************************************)
C15_RecursiveReachesAllDepths ==
    (Scanned /\ locals.recursive /\ ValidPage /\ NoFault /\ ReaddirOk(locals.targetDir)
        /\ locals.scanLimit >= Cardinality(SubtreeMedia(locals.targetDir)))
    => \A q \in SubtreeMedia(locals.targetDir) :
          \E i \in 1..Len(locals.mediaFiles) : locals.mediaFiles[i].fullPath = q

(***************************************************************************)
(* C16: for offset o >= 0 and limit l > 0 the page is the slice [o, o+l)   *)
(* of what a scan of the same directory with the same recursive flag and   *)
(* no effective limit returns, a sequence without duplicates; so the page  *)
(* has l items whenever o + l items exist and consecutive pages join up.   *)
(***************************************************************************)
\* a work limit no scan of the tree can reach
Unbounded == Cardinality(DOMAIN tree) + 1

C16_PageIsSlice ==
    (PhotosPage /\ locals.limit > 0 /\ locals.offset >= 0)
    => LET all == getMediaFilesInDirectory(locals.targetDir, locals.recursive, Unbounded)
           o == locals.offset
           l == locals.limit
       IN  /\ Len(response.photos) = Max(0, Min(l, Len(all) - o))
           /\ \A i \in 1..Len(response.photos) :
                 /\ response.photos[i].relativePath = all[o + i].relativePath
                 /\ response.photos[i].name = all[o + i].name
                 /\ response.photos[i].id = o + i
           /\ \A i, j \in 1..Len(all) :
                 i # j => all[i].relativePath # all[j].relativePath

\* a full page at an offset > 0 of a directory that holds more
C16_Witness ==
    /\ PhotosPage /\ locals.limit > 0 /\ locals.offset > 0
    /\ Len(response.photos) = locals.limit
    /\ Len(getMediaFilesInDirectory(locals.targetDir, locals.recursive, Unbounded))
          > locals.offset + locals.limit

(***************************************************************************)
(* C17: totalCount is the number of entries the scan returned for the work *)
(* limit offset + limit; it never exceeds the number of media files in the *)
(* scanned scope (the directory, or its whole subtree when recursive) and  *)
(* is smaller only when the work limit was reached.                        *)
(***************************************************************************)
C17_TotalCountLowerBound ==
    (PhotosPage /\ ValidPage /\ NoFault /\ ReaddirOk(locals.targetDir))
    => LET actual == IF locals.recursive
                   THEN Cardinality(SubtreeMedia(locals.targetDir))
                   ELSE Cardinality(DirectMedia(locals.targetDir))
       IN  /\ response.totalCount = Len(locals.mediaFiles)
           /\ locals.scanLimit = locals.offset + locals.limit
           /\ response.totalCount <= actual
           /\ response.totalCount < actual => response.totalCount >= locals.scanLimit

(***************************************************************************)
(* C18: in a scan of a readable directory an entry whose stat fails is     *)
(* skipped alone and the call returns normally: a non-recursive scan       *)
(* returns the first L of the media files among the entries that can be    *)
(* stat-ed, in readdir order; a recursive scan returns all of them.        *)
(***************************************************************************)
\* the media files among the entries of d that can be stat-ed, in order
StatableMedia(d) ==
    LET ok(name) == StatOk(Append(d, name)) /\ IsFile(Append(d, name)) /\ isMediaFile(name)
    IN  SelectSeq(tree[d].entries, ok)
\* the names of the entries of a scan that are direct children of d
DirectNames(d, found) ==
    LET direct(e) == e.fullPath = Append(d, e.name)
        sel == SelectSeq(found, direct)
    IN  [i \in 1..Len(sel) |-> sel[i].name]

C18_FailingEntrySkipped ==
    (Scanned /\ locals.scanLimit >= 0 /\ ReaddirOk(locals.targetDir))
    => LET d == locals.targetDir
           expected == StatableMedia(d)
       IN  /\ response.status = 200
           /\ ~locals.recursive
                 => DirectNames(d, locals.mediaFiles)
                      = SubSeq(expected, 1, Min(locals.scanLimit, Len(expected)))
           /\ locals.recursive => DirectNames(d, locals.mediaFiles) = expected

\* the stat of an entry fails and a media file that readdir gives after it
\* is returned
C18_Witness ==
    /\ Scanned /\ ReaddirOk(locals.targetDir) /\ response.status = 200
    /\ \E j, k \in 1..Len(tree[locals.targetDir].entries) :
          /\ j < k
          /\ ~StatOk(Append(locals.targetDir, tree[locals.targetDir].entries[j]))
          /\ \E i \in 1..Len(locals.mediaFiles) :
                locals.mediaFiles[i].fullPath
                   = Append(locals.targetDir, tree[locals.targetDir].entries[k])

(***************************************************************************)
(* C19: in the count probe of a listed directory E that has a child whose  *)
(* stat fails, only that child is skipped: mediaCount and                  *)
(* subdirectoryCount are the counts over the children that can be stat-ed. *)
(***************************************************************************)
C19_ProbeSkipsFailingChild ==
    (Listed /\ response.status = 200)
    => \A i \in 1..Len(response.directories) :
          LET E == response.directories[i]
          IN  (ReaddirOk(E.fullPath) /\ ~AllEntriesStatOk(E.fullPath))
              => /\ E.mediaCount = Cardinality(DirectMedia(E.fullPath))
                 /\ E.subdirectoryCount = Cardinality(DirectSubdirs(E.fullPath))

(***************************************************************************)
(* C20: a listing is in strictly ascending order of name and holds exactly *)
(* the child directories of the listed directory that can be stat-ed, so   *)
(* the sequence is fixed by the tree: every call on an unchanged tree      *)
(* returns the same entries in the same order.                             *)
(***************************************************************************)
C20_ListingSorted ==
    (Listed /\ response.status = 200)
    => /\ \A i, j \in 1..Len(response.directories) :
             i < j => localeCompare(response.directories[i].name,
                                    response.directories[j].name) < 0
       /\ {response.directories[i].fullPath : i \in 1..Len(response.directories)}
             = IF ReaddirOk(locals.targetDir)
               THEN {Append(locals.targetDir, tree[locals.targetDir].entries[j]) :
                        j \in DirectSubdirs(locals.targetDir)}
               ELSE {}

\* readdir gives two child directories in an order that is not the order
\* of their names, and the listing has both
C20_Witness ==
    /\ Listed /\ response.status = 200 /\ Len(response.directories) >= 2
    /\ \E j, k \in DirectSubdirs(locals.targetDir) :
          /\ j < k
          /\ localeCompare(tree[locals.targetDir].entries[j],
                           tree[locals.targetDir].entries[k]) > 0

C22_NonRecursiveNeverHasMore ==
    (PhotosPage /\ response.status = 200 /\ ~locals.recursive
        /\ locals.offset >= 0 /\ locals.limit > 0)
    => /\ response.totalCount <= locals.offset + locals.limit
       /\ response.hasMore = FALSE

\* the directory holds more media files than offset + limit
C22_Witness ==
    /\ PhotosPage /\ response.status = 200 /\ ~locals.recursive
    /\ locals.offset >= 0 /\ locals.limit > 0
    /\ ReaddirOk(locals.targetDir)
    /\ Cardinality(DirectMedia(locals.targetDir)) > locals.offset + locals.limit
    /\ response.totalCount = locals.offset + locals.limit

(***************************************************************************)
(* C24: a directory whose name carries a media extension is never          *)
(* returned as a MediaEntry by a scan, never adds to a mediaCount, and is  *)
(* counted in the subdirectoryCount of its parent.                         *)
(***************************************************************************)
\* the directories of the tree that can be stat-ed and are named like media
MediaNamedDirs ==
    {q \in DOMAIN tree : StatOk(q) /\ IsDirectory(q) /\ isMediaFile(q[Len(q)])}
\* the children of d that are directories named like media
MediaNamedDirsIn(d) ==
    {i \in 1..Len(tree[d].entries) :
        Append(d, tree[d].entries[i]) \in MediaNamedDirs}

C24_DirectoryNeverMedia ==
    /\ Scanned
         => \A i \in 1..Len(locals.mediaFiles) :
               locals.mediaFiles[i].fullPath \notin MediaNamedDirs
    /\ (Listed /\ response.status = 200)
         => \A i \in 1..Len(response.directories) :
               LET E == response.directories[i]
               IN  /\ E.mediaCount <= Cardinality(DirectMedia(E.fullPath))
                   /\ ReaddirOk(E.fullPath)
                        => E.subdirectoryCount
                              >= Cardinality(MediaNamedDirsIn(E.fullPath))

(***************************************************************************)
(* The client (App.tsx).  A load of the client is answered by the server   *)
(* over the file tree; the answer is computed when the response arrives.   *)
(***************************************************************************)
\* number of loads the client issues in a run
MaxLoads == 4

\* the page size of loadPhotos (default of its parameter limit)
DefaultPageLimit == 50

\* String(n) of an integer n >= 0, as a template literal renders it
RECURSIVE ToDecimal(_)
ToDecimal(n) ==
    IF n < 10 THEN <<DigitChars[n + 1]>>
    ELSE Append(ToDecimal(n \div 10), DigitChars[(n % 10) + 1])

\* the answer of GET /api/directories (empty path) or of
\* GET /api/directories/:path
DirectoriesAnswer(path) ==
    IF path = <<>>
    THEN IF ~ExistsSync(RootSegs) THEN [status |-> 404]
         ELSE [status |-> 200, directories |-> getDirectoriesWithCounts(RootSegs)]
    ELSE LET targetDir == Join(RootSegs, path)
         IN  IF AccessDenied(targetDir) THEN [status |-> 403]
             ELSE IF ~ExistsSync(targetDir) THEN [status |-> 404]
             ELSE [status |-> 200,
                   currentPath |-> path,
                   fullPath |-> targetDir,
                   directories |-> getDirectoriesWithCounts(targetDir)]

\* the answer of GET /api/photos/:directory?limit=&offset= (no recursive
\* parameter); with an empty directory the URL is that of GET /api/photos,
\* whose answer has no hasMore and no totalCount
PhotosAnswer(directory, qLimit, qOffset) ==
    IF directory = <<>>
    THEN LET mediaFiles == getMediaFilesInDirectory(RootSegs, FALSE, RootPhotosLimit)
         IN  [status |-> 200, photos |-> PageOf(mediaFiles, 0, Len(mediaFiles)),
              hasMore |-> FALSE, totalCount |-> 0]
    ELSE LET targetDir == Join(RootSegs, directory)
             limit == OrDefault(parseInt(qLimit), DefaultLimit)
             offset == OrDefault(parseInt(qOffset), DefaultOffset)
             mediaFiles == getMediaFilesInDirectory(targetDir, FALSE, limit + offset)
         IN  IF AccessDenied(targetDir) THEN [status |-> 403]
             ELSE IF ~ExistsSync(targetDir) THEN [status |-> 404]
             ELSE [status |-> 200,
                   photos |-> PageOf(mediaFiles, offset, limit),
                   totalCount |-> Len(mediaFiles),
                   hasMore |-> Len(mediaFiles) > offset + limit,
                   currentPage |-> FloorDiv(offset, limit) + 1,
                   directory |-> directory]

\* the trees the client browses: /p/a without media, with a few media
\* files, and with one media file more than a page holds
ClientTrees == {BaseTree(0), BaseTree(MaxFiles), BaseTree(DefaultPageLimit + 1)}

\* what the journal keeps of the navigation state
Snapshot(a) ==
    [mode |-> a.mode, currentPath |-> a.currentPath, directories |-> a.directories,
     photos |-> a.photos, pathHistory |-> a.pathHistory]

\* the part of loadDirectories and of loadPhotos before the await:
\* setLoading(true), setError(null), and the request goes out.  a is the
\* state left by the calling handler, nav what the journal notes of it.
SendLoad(a, f, nav) ==
    /\ journal.issued < MaxLoads
    /\ LET sent == [id |-> journal.issued + 1] @@ f
       IN  /\ app' = [a EXCEPT !.loading = TRUE, !.error = NoError]
           /\ fetches' = Append(fetches, sent)
           /\ journal' = [journal EXCEPT !.issued = @ + 1, !.last = sent, !.nav = nav]

loadDirectories(a, path, nav) ==
    SendLoad(a, [kind |-> "directories", path |-> path, page |-> 1,
                 limit |-> 0, offset |-> 0], nav)

\* offset = (page - 1) * limit goes into the URL with the limit
loadPhotos(a, directoryPath, page, limit, nav) ==
    SendLoad(a, [kind |-> "photos", path |-> directoryPath, page |-> page,
                 limit |-> limit, offset |-> (page - 1) * limit], nav)

\* what the server answers to a load
Answer(f) ==
    IF f.kind = "directories" THEN DirectoriesAnswer(f.path)
    ELSE PhotosAnswer(f.path, ToDecimal(f.limit), ToDecimal(f.offset))

\* the load throws: the fetch rejects (network error) or the status is not OK
Fails(f, net) == net = "error" \/ Answer(f).status # 200

\* the part of loadDirectories after the await, with its catch and finally
loadDirectoriesDone(a, f, net) ==
    IF Fails(f, net)
    THEN [a EXCEPT !.error = "connect", !.loading = FALSE]
    ELSE LET data == Answer(f)
         IN  [a EXCEPT !.directories = data.directories,
                       !.currentPath = f.path,
                       !.mode = "directories",
                       !.loading = FALSE]

\* the part of loadPhotos after the await, with its catch and finally
loadPhotosDone(a, f, net) ==
    IF Fails(f, net)
    THEN [a EXCEPT !.error = "photos", !.loading = FALSE]
    ELSE LET data == Answer(f)
         IN  [a EXCEPT !.photos = IF f.page = 1 THEN data.photos
                                  ELSE a.photos \o data.photos,
                       !.hasMore = data.hasMore,
                       !.currentPage = f.page,
                       !.totalCount = data.totalCount,
                       !.currentPath = f.path,
                       !.mode = "photos",
                       !.loading = FALSE]

\* the journal's note of a navigation after the load f has settled: the
\* load of the followed click or Back moves the note on, a finished note
\* is dropped at the next event
NavAfter(nav, f, failed) ==
    IF nav.stage = "clicked" /\ nav.id = f.id
    THEN [nav EXCEPT !.stage = IF failed THEN "failed" ELSE "entered"]
    ELSE IF nav.stage \in {"back", "backRoot"} /\ nav.id = f.id
    THEN IF failed THEN NoNav
         ELSE [nav EXCEPT !.stage = IF nav.stage = "back" THEN "returned"
                                    ELSE "returnedRoot"]
    ELSE IF nav.stage \in {"failed", "returned", "returnedRoot"} THEN NoNav
    ELSE nav

\* the response of a load in flight arrives, or its fetch rejects; the
\* loads in flight settle in any order
FetchSettles ==
    /\ \E i \in 1..Len(fetches), net \in {"ok", "error"} :
         LET f == fetches[i]
         IN  /\ app' = IF f.kind = "directories"
                       THEN loadDirectoriesDone(app, f, net)
                       ELSE loadPhotosDone(app, f, net)
             /\ fetches' = SubSeq(fetches, 1, i - 1) \o SubSeq(fetches, i + 1, Len(fetches))
             /\ journal' = [journal EXCEPT !.failed = @ \/ Fails(f, net),
                                           !.nav = NavAfter(@, f, Fails(f, net))]
    /\ UNCHANGED <<tree, serverVars, viewer>>

\* directories.find(d => d.path === directoryPath)
Find(directories, directoryPath) ==
    LET hits == {k \in 1..Len(directories) : directories[k].path = directoryPath}
    IN  directories[CHOOSE k \in hits : \A j \in hits : k <= j]

\* a directory card is clicked (the cards are shown in directories mode
\* when nothing is loading); choice is the answer to window.confirm
handleDirectoryClick ==
    /\ app.mode = "directories" /\ ~app.loading /\ app.selectedPhoto = Null
    /\ \E k \in 1..Len(app.directories), choice \in BOOLEAN :
         LET directoryPath == app.directories[k].path
             directory == Find(app.directories, directoryPath)
             pushed == [app EXCEPT !.pathHistory = Append(@, app.currentPath)]
             nav == [stage |-> "clicked", id |-> journal.issued + 1,
                     before |-> Snapshot(app), quiet |-> fetches = <<>>]
         IN  IF directory.mediaCount > 0
             THEN IF choice
                  THEN loadPhotos(pushed, directoryPath, 1, DefaultPageLimit, nav)
                  ELSE IF directory.subdirectoryCount > 0
                  THEN loadDirectories(pushed, directoryPath, nav)
                  ELSE UNCHANGED <<app, fetches, journal>>
             ELSE IF directory.subdirectoryCount > 0
             THEN loadDirectories(pushed, directoryPath, nav)
             ELSE UNCHANGED <<app, fetches, journal>>
    /\ UNCHANGED <<tree, serverVars, viewer>>

\* a Back button is on the page: that of the photos view (no load running,
\* no error shown) or that of the directory browser (no load running, not
\* at the root)
BackShown ==
    IF app.mode = "photos" THEN ~app.loading /\ app.error = NoError
    ELSE ~app.loading /\ app.currentPath # <<>>

\* handleBackClick that leaves pathHistory as it is
handleBackClickKeepHistory ==
    /\ BackShown /\ app.selectedPhoto = Null
    /\ IF Len(app.pathHistory) > 0
       THEN LET previousPath == app.pathHistory[Len(app.pathHistory)]
                nav == IF journal.nav.stage = "entered"
                       THEN [journal.nav EXCEPT !.stage = "back",
                                                !.id = journal.issued + 1]
                       ELSE NoNav
            IN  loadDirectories(app, previousPath, nav)
       ELSE loadDirectories(app, <<>>,
                            [stage |-> "backRoot", id |-> journal.issued + 1])
    /\ UNCHANGED <<tree, serverVars, viewer>>

handleBackClick ==
    /\ BackShown /\ app.selectedPhoto = Null
    /\ IF Len(app.pathHistory) > 0
       THEN LET previousPath == app.pathHistory[Len(app.pathHistory)]
                popped == [app EXCEPT !.pathHistory = Slice(@, 0, -1)]
                nav == IF journal.nav.stage = "entered"
                       THEN [journal.nav EXCEPT !.stage = "back",
                                                !.id = journal.issued + 1]
                       ELSE NoNav
            IN  loadDirectories(popped, previousPath, nav)
       ELSE loadDirectories(app, <<>>,
                            [stage |-> "backRoot", id |-> journal.issued + 1])
    /\ UNCHANGED <<tree, serverVars, viewer>>

\* the Refresh button of the header, on the page in every state
handleRefresh ==
    /\ app.selectedPhoto = Null
    /\ IF app.mode = "directories"
       THEN loadDirectories(app, app.currentPath, NoNav)
       ELSE loadPhotos([app EXCEPT !.photos = <<>>, !.currentPage = 1],
                       app.currentPath, 1, DefaultPageLimit, NoNav)
    /\ UNCHANGED <<tree, serverVars, viewer>>

\* loadMorePhotos without its test of hasMore and loading
loadMorePhotosUnguarded ==
    /\ app.mode = "photos" /\ app.selectedPhoto = Null
    /\ loadPhotos(app, app.currentPath, app.currentPage + 1, DefaultPageLimit, NoNav)
    /\ UNCHANGED <<tree, serverVars, viewer>>

\* the handler of the Load More button of the photos view
loadMorePhotos ==
    /\ app.mode = "photos" /\ app.selectedPhoto = Null
    /\ IF app.hasMore /\ ~app.loading
       THEN loadPhotos(app, app.currentPath, app.currentPage + 1,
                       DefaultPageLimit, NoNav)
       ELSE UNCHANGED <<app, fetches, journal>>
    /\ UNCHANGED <<tree, serverVars, viewer>>

\* the client after its first render and its mount effect, which calls
\* loadDirectories('')
ClientInit ==
    /\ tree \in ClientTrees
    /\ request = NoRequest
    /\ response = NoResponse
    /\ locals = NoLocals
    /\ app = InitialApp
    /\ LET sent == [id |-> 1, kind |-> "directories", path |-> <<>>, page |-> 1,
                    limit |-> 0, offset |-> 0]
       IN  /\ fetches = <<sent>>
           /\ journal = [issued |-> 1, last |-> sent, failed |-> FALSE, nav |-> NoNav]
    /\ viewer = InitialViewer

ClientNext ==
    \/ FetchSettles
    \/ handleDirectoryClick
    \/ handleBackClick
    \/ handleRefresh
    \/ loadMorePhotos

ClientSpec == ClientInit /\ [][ClientNext]_vars

(***************************************************************************)
(* The photo viewer (PhotoViewer, and the part of App that feeds it): the  *)
(* search box, the click on a photo, the handlers onNext, onPrevious and   *)
(* onClose, the buttons of the viewer and the reset effect.  While the     *)
(* viewer is open it covers the page, so the search box and the grid are   *)
(* used only while it is closed; the response of a load that is still in   *)
(* flight can arrive at any time.                                          *)
(***************************************************************************)
ZoomStep == 25
ZoomMin == 50
ZoomMax == 300
QuarterTurn == 90
FullTurn == 360

\* what is typed into the search box
SearchTerms == { <<>>, <<"p">>, <<"j", "p">>, <<"P", "N">>, <<"z">> }

\* s.includes(t)
Includes(s, t) ==
    \E i \in 0..(Len(s) - Len(t)) : SubSeq(s, i + 1, i + Len(t)) = t

\* photos.filter(photo => photo.name.toLowerCase().includes(searchTerm.toLowerCase()))
RECURSIVE Filter(_, _)
Filter(photos, searchTerm) ==
    IF photos = <<>> THEN <<>>
    ELSE LET rest == Filter(Tail(photos), searchTerm)
         IN  IF Includes(ToLowerCase(Head(photos).name), ToLowerCase(searchTerm))
             THEN <<Head(photos)>> \o rest
             ELSE rest

filteredPhotos == Filter(app.photos, app.searchTerm)

\* list.findIndex(p => p.id === id), counted from 0; -1 when there is none
FindIndex(list, id) ==
    LET hits == {k \in 1..Len(list) : list[k].id = id}
    IN  IF hits = {} THEN 0 - 1
        ELSE (CHOOSE k \in hits : \A j \in hits : k <= j) - 1

\* list[index] for an index counted from 0: undefined outside the list,
\* and a selectedPhoto that is undefined closes the viewer as null does
At(list, index) ==
    IF index >= 0 /\ index < Len(list) THEN list[index + 1] ELSE Null

\* the endings of the regular expression of isVideo
videoPattern ==
    { <<".", "m", "p", "4">>, <<".", "a", "v", "i">>, <<".", "m", "o", "v">>,
      <<".", "w", "m", "v">>, <<".", "f", "l", "v">>, <<".", "w", "e", "b", "m">>,
      <<".", "m", "k", "v">>, <<".", "m", "4", "v">> }

EndsWith(s, t) == Len(s) >= Len(t) /\ SubSeq(s, Len(s) - Len(t) + 1, Len(s)) = t

isVideo(photo) ==
    \/ photo.type = "video"
    \/ \E e \in videoPattern : EndsWith(ToLowerCase(photo.name), e)

\* the viewer after a render with the photo p: unmounted when p is null,
\* mounted anew when none was shown, and reset by the effect when photo.id
\* is not the one the effect ran for last
Rendered(v, p) ==
    IF p = Null THEN InitialViewer
    ELSE IF v.shown = p.id THEN v
    ELSE [rotation |-> 0, zoom |-> 100, isPlaying |-> FALSE, shown |-> p.id]

\* the photo onNext selects
NextPhoto(list, selectedPhoto) ==
    LET currentIndex == FindIndex(list, selectedPhoto.id)
    IN  IF Len(list) = 0 THEN Null
        ELSE At(list, (currentIndex + 1) % Len(list))

\* onPrevious that stops at the first photo
PreviousPhotoNoWrap(list, selectedPhoto) ==
    LET currentIndex == FindIndex(list, selectedPhoto.id)
        prevIndex == IF currentIndex = 0 THEN 0 ELSE currentIndex - 1
    IN  At(list, prevIndex)

\* the photo onPrevious selects
PreviousPhoto(list, selectedPhoto) ==
    LET currentIndex == FindIndex(list, selectedPhoto.id)
        prevIndex == IF currentIndex = 0 THEN Len(list) - 1 ELSE currentIndex - 1
    IN  At(list, prevIndex)

ViewerOpen == app.selectedPhoto # Null

\* the search box of the header
onSearch ==
    /\ ~ViewerOpen
    /\ \E term \in SearchTerms :
         app' = [app EXCEPT !.searchTerm = term]
    /\ journal' = [journal EXCEPT !.nav = NoNav]
    /\ UNCHANGED <<tree, serverVars, fetches, viewer>>

\* a photo of the grid is clicked: setSelectedPhoto(photo)
onPhotoClick ==
    /\ ~ViewerOpen /\ app.mode = "photos"
    /\ \E k \in 1..Len(filteredPhotos) :
         /\ app' = [app EXCEPT !.selectedPhoto = filteredPhotos[k]]
         /\ viewer' = Rendered(viewer, filteredPhotos[k])
    /\ journal' = [journal EXCEPT !.nav = NoNav]
    /\ UNCHANGED <<tree, serverVars, fetches>>

onClose ==
    /\ ViewerOpen
    /\ app' = [app EXCEPT !.selectedPhoto = Null]
    /\ viewer' = Rendered(viewer, Null)
    /\ journal' = [journal EXCEPT !.nav = NoNav]
    /\ UNCHANGED <<tree, serverVars, fetches>>

onNext ==
    /\ ViewerOpen
    /\ LET next == NextPhoto(filteredPhotos, app.selectedPhoto)
       IN  /\ app' = [app EXCEPT !.selectedPhoto = next]
           /\ viewer' = Rendered(viewer, next)
    /\ journal' = [journal EXCEPT !.nav = [stage |-> "next",
                                           before |-> app.selectedPhoto,
                                           from |-> app.selectedPhoto,
                                           list |-> filteredPhotos]]
    /\ UNCHANGED <<tree, serverVars, fetches>>

onPrevious ==
    /\ ViewerOpen
    /\ LET previous == PreviousPhoto(filteredPhotos, app.selectedPhoto)
       IN  /\ app' = [app EXCEPT !.selectedPhoto = previous]
           /\ viewer' = Rendered(viewer, previous)
    /\ journal' = [journal EXCEPT !.nav =
                      IF journal.nav.stage = "next" /\ journal.nav.list = filteredPhotos
                      THEN [journal.nav EXCEPT !.stage = "nextPrevious",
                                               !.from = app.selectedPhoto]
                      ELSE [stage |-> "previous",
                            before |-> app.selectedPhoto,
                            from |-> app.selectedPhoto,
                            list |-> filteredPhotos]]
    /\ UNCHANGED <<tree, serverVars, fetches>>

\* setZoom(Math.min(3, zoom + 0.25)) and setZoom(Math.max(0.5, zoom - 0.25))
ZoomIn(zoom) == Min(ZoomMax, zoom + ZoomStep)
ZoomOut(zoom) == Max(ZoomMin, zoom - ZoomStep)
\* setRotation((rotation + 90) % 360)
Rotate(rotation) == (rotation + QuarterTurn) % FullTurn

\* the buttons Zoom in, Zoom out and Rotate, shown for a photo that is not
\* a video
onZoomIn ==
    /\ ViewerOpen /\ ~isVideo(app.selectedPhoto)
    /\ viewer' = [viewer EXCEPT !.zoom = ZoomIn(@)]
    /\ journal' = [journal EXCEPT !.nav = NoNav]
    /\ UNCHANGED <<tree, serverVars, app, fetches>>

onZoomOut ==
    /\ ViewerOpen /\ ~isVideo(app.selectedPhoto)
    /\ viewer' = [viewer EXCEPT !.zoom = ZoomOut(@)]
    /\ journal' = [journal EXCEPT !.nav = NoNav]
    /\ UNCHANGED <<tree, serverVars, app, fetches>>

onRotate ==
    /\ ViewerOpen /\ ~isVideo(app.selectedPhoto)
    /\ viewer' = [viewer EXCEPT !.rotation = Rotate(@)]
    /\ journal' = [journal EXCEPT !.nav = NoNav]
    /\ UNCHANGED <<tree, serverVars, app, fetches>>

\* the video element reports that it plays, or that it has paused
onPlay ==
    /\ ViewerOpen /\ isVideo(app.selectedPhoto)
    /\ viewer' = [viewer EXCEPT !.isPlaying = TRUE]
    /\ journal' = [journal EXCEPT !.nav = NoNav]
    /\ UNCHANGED <<tree, serverVars, app, fetches>>

onPause ==
    /\ ViewerOpen /\ isVideo(app.selectedPhoto)
    /\ viewer' = [viewer EXCEPT !.isPlaying = FALSE]
    /\ journal' = [journal EXCEPT !.nav = NoNav]
    /\ UNCHANGED <<tree, serverVars, app, fetches>>

\* the directories whose photos the client shows in the viewer's runs
ViewerDirs == { <<nA>>, <<nB>> }

MountLoad ==
    [id |-> 1, kind |-> "directories", path |-> <<>>, page |-> 1,
     limit |-> 0, offset |-> 0]

PhotosLoad(id, directoryPath) ==
    [id |-> id, kind |-> "photos", path |-> directoryPath, page |-> 1,
     limit |-> DefaultPageLimit, offset |-> 0]

\* the client showing the photos of a directory of the root.  Either the
\* directory was clicked after the mount load and nothing is in flight, or
\* the other directory was clicked first, Refresh was pressed and answered
\* while that load was in flight, and then this directory was clicked and
\* its load answered: the load of the other directory is still in flight.
\* The journal starts without a note of a navigation.
ViewerInit ==
    /\ tree = BaseTree(MaxFiles)
    /\ request = NoRequest
    /\ response = NoResponse
    /\ locals = NoLocals
    /\ \E shown \in ViewerDirs, stale \in BOOLEAN :
         LET mounted == loadDirectoriesDone(InitialApp, MountLoad, "ok")
             other == CHOOSE d \in ViewerDirs : d # shown
             last == PhotosLoad(IF stale THEN 4 ELSE 2, shown)
             clicked == [mounted EXCEPT !.pathHistory =
                            IF stale THEN << <<>>, <<>> >> ELSE << <<>> >>]
         IN  /\ app = loadPhotosDone(clicked, last, "ok")
             /\ fetches = IF stale THEN <<PhotosLoad(2, other)>> ELSE <<>>
             /\ journal = [issued |-> last.id, last |-> last,
                           failed |-> FALSE, nav |-> NoNav]
    /\ viewer = InitialViewer

\* the state ViewerInit starts from with a load in flight, as the client
\* reaches it
StaleLoadState ==
    /\ tree = BaseTree(MaxFiles)
    /\ fetches # <<>>
    /\ \E shown \in ViewerDirs :
         LET mounted == loadDirectoriesDone(InitialApp, MountLoad, "ok")
             other == CHOOSE d \in ViewerDirs : d # shown
             last == PhotosLoad(4, shown)
             clicked == [mounted EXCEPT !.pathHistory = << <<>>, <<>> >>]
         IN  /\ app = loadPhotosDone(clicked, last, "ok")
             /\ fetches = <<PhotosLoad(2, other)>>
             /\ journal.issued = 4 /\ journal.last = last /\ ~journal.failed
    /\ viewer = InitialViewer

ViewerNext ==
    \/ onSearch
    \/ onPhotoClick
    \/ onClose
    \/ onNext
    \/ onPrevious
    \/ onZoomIn
    \/ onZoomOut
    \/ onRotate
    \/ onPlay
    \/ onPause
    \/ FetchSettles

ViewerSpec == ViewerInit /\ [][ViewerNext]_vars

(***************************************************************************)
(* C23: the client never issues a photos request with an offset > 0, and   *)
(* its photos list never holds more than a page of 50 entries.             *)
(***************************************************************************)
C23_NoSecondPage ==
    /\ \A i \in 1..Len(fetches) :
          fetches[i].kind = "photos" => fetches[i].offset = 0 /\ fetches[i].page = 1
    /\ journal.last.kind = "photos" => journal.last.offset = 0
    /\ Len(app.photos) <= DefaultPageLimit

\* the photos of a directory with more media files than a page holds have
\* been loaded
C23_Witness ==
    /\ app.mode = "photos" /\ fetches = <<>> /\ ~app.loading
    /\ Len(app.photos) = DefaultPageLimit
    /\ ~app.hasMore
    /\ Cardinality(DirectMedia(Join(RootSegs, app.currentPath))) > DefaultPageLimit

(***************************************************************************)
(* C25: loading is true in every state in which a load is in flight.       *)
(***************************************************************************)
C25_LoadingWhileInFlight == fetches # <<>> => app.loading

(***************************************************************************)
(* C26: once no load is in flight and no load has failed, mode,            *)
(* currentPath and the displayed directories or photos are those of the    *)
(* load that was issued last.                                              *)
(***************************************************************************)
C26_LastRequestWins ==
    (fetches = <<>> /\ ~journal.failed)
    => LET last == journal.last
       IN  /\ app.currentPath = last.path
           /\ IF last.kind = "directories"
              THEN /\ app.mode = "directories"
                   /\ app.directories = Answer(last).directories
              ELSE /\ app.mode = "photos"
                   /\ app.photos = Answer(last).photos

(***************************************************************************)
(* C27: when the load started by a directory click fails, mode,            *)
(* currentPath, directories, photos and pathHistory have the values they   *)
(* had before the click (stated for a click made while no other load was   *)
(* in flight).                                                             *)
(***************************************************************************)
C27_FailedClickLeavesState ==
    (journal.nav.stage = "failed" /\ journal.nav.quiet)
    => Snapshot(app) = journal.nav.before

(***************************************************************************)
(* C28: when the load of a Back arrives that was pressed after a directory *)
(* click from path P had been answered, the client is in directories mode  *)
(* with currentPath = P and the pathHistory it had before the click; a     *)
(* Back with an empty history asks for the root listing and leaves the     *)
(* client at the root with an empty history.                               *)
(***************************************************************************)
C28_BackRestores ==
    LET nav == journal.nav
    IN  /\ nav.stage = "returned"
             => /\ app.mode = "directories"
                /\ app.currentPath = nav.before.currentPath
                /\ app.pathHistory = nav.before.pathHistory
        /\ nav.stage = "backRoot"
             => journal.last.kind = "directories" /\ journal.last.path = <<>>
        /\ nav.stage = "returnedRoot"
             => /\ app.mode = "directories"
                /\ app.currentPath = <<>>
                /\ app.pathHistory = <<>>

\* Back has returned to a directory under the root from which a directory
\* was entered
C28_Witness ==
    /\ journal.nav.stage = "returned"
    /\ journal.nav.before.currentPath # <<>>
    /\ journal.nav.before.pathHistory # <<>>

(***************************************************************************)
(* The journal's note of the viewer: after onNext or onPrevious it holds   *)
(* the photo that was selected (from), the list that was filtered (list),  *)
(* and, when onPrevious follows onNext over the same list, the photo       *)
(* selected before the two (before).                                       *)
(***************************************************************************)
Navigated == journal.nav.stage \in {"next", "previous", "nextPrevious"}

Members(list) == {list[k] : k \in 1..Len(list)}

PositionIn(list, photo) == CHOOSE k \in 1..Len(list) : list[k] = photo

(***************************************************************************)
(* C29: viewer navigation is cyclic over the filtered photo list.  When    *)
(* the selected photo is in a non-empty filteredPhotos, Next selects the   *)
(* photo that follows it and wraps from the last to the first, Previous    *)
(* selects the one before it and wraps from the first to the last, Next    *)
(* followed by Previous restores the selection, and the photo selected     *)
(* after either is a member of filteredPhotos.                             *)
(***************************************************************************)
C29_CyclicNavigation ==
    LET nav == journal.nav
    IN  (Navigated /\ nav.list # <<>> /\ nav.before \in Members(nav.list)) =>
          LET k == PositionIn(nav.list, nav.before)
              n == Len(nav.list)
          IN  /\ app.selectedPhoto \in Members(nav.list)
              /\ nav.stage = "next" =>
                   app.selectedPhoto = nav.list[IF k = n THEN 1 ELSE k + 1]
              /\ nav.stage = "previous" =>
                   app.selectedPhoto = nav.list[IF k = 1 THEN n ELSE k - 1]
              /\ nav.stage = "nextPrevious" =>
                   app.selectedPhoto = nav.before

\* Next has wrapped from the last of several photos to the first, and
\* Previous has wrapped back to the last
C29_Witness ==
    /\ journal.nav.stage = "nextPrevious"
    /\ Len(journal.nav.list) > 1
    /\ journal.nav.before = journal.nav.list[Len(journal.nav.list)]
    /\ journal.nav.from = journal.nav.list[1]
    /\ app.selectedPhoto = journal.nav.before

(***************************************************************************)
(* C30: in the photo viewer the zoom stays within [0.5, 3] in steps of     *)
(* 0.25, the rotation is one of 0, 90, 180 and 270 and four rotations      *)
(* return to the starting angle; whenever the displayed photo changes, the *)
(* zoom is reset to 1, the rotation to 0 and isPlaying to false.           *)
(***************************************************************************)
C30_ZoomAndRotation ==
    /\ viewer.zoom >= ZoomMin /\ viewer.zoom <= ZoomMax
    /\ viewer.zoom % ZoomStep = 0
    /\ viewer.rotation \in {0, 90, 180, 270}
    /\ Rotate(Rotate(Rotate(Rotate(viewer.rotation)))) = viewer.rotation

C30_ResetOnChange ==
    (Navigated /\ ViewerOpen /\ app.selectedPhoto # journal.nav.from) =>
        /\ viewer.zoom = 100
        /\ viewer.rotation = 0
        /\ viewer.isPlaying = FALSE

C30_ViewerState == C30_ZoomAndRotation /\ C30_ResetOnChange

====
